---- MODULE Spec2Model ----
(***************************************************************************)
(* Model of the SpokyAI voice-command pipeline                             *)
(* (src/SpokyAI/ai/voice_recognition.py): the VoiceRecognition lifecycle   *)
(* (start_listening, stop_listening, cleanup, recognize_from_file), the    *)
(* audio callback and the decode worker that share audio_queue, and the    *)
(* VoiceCommandHandler registry with its exact-then-substring dispatch.    *)
(*                                                                         *)
(* Text is a sequence of characters over a small alphabet, so that         *)
(* str.lower(), str.strip() and the `in` substring test are computed and   *)
(* not assumed.                                                            *)
(***************************************************************************)
EXTENDS Integers, Sequences, FiniteSets, TLC

VARIABLES
    recognizer,    \* VoiceRecognition.recognizer is set (TRUE) or None (FALSE)
    sample_rate,   \* VoiceRecognition.sample_rate
    is_listening,  \* VoiceRecognition.is_listening
    stream,        \* VoiceRecognition.stream: None, or the id of the stream object it refers to
    streams,       \* every stream PyAudio has opened, in order of opening: "open" or "closed"
    terminated,    \* number of calls of self.audio.terminate()
    audio_queue,   \* VoiceRecognition.audio_queue
    pushed,        \* frames put on audio_queue so far, in order
    popped,        \* frames taken from audio_queue so far, in order
    workers,       \* the processing threads started so far: [pc, data]
    processed,     \* the last run of the loop body after a frame was taken: the thread,
                   \* the recognizer's answer, and whether an exception was caught
    commands,      \* VoiceCommandHandler.commands: insertion-ordered dict, as a sequence of [phrase, handler]
    text,          \* the raw result['text'] handed to the last process_result call
    invoked,       \* handlers called by the last process_result call, in call order
    lastReg,       \* arguments of the last register_command call
    calls,         \* the last two calls of the lifecycle methods, oldest first
    outcome,       \* how the last call made by the controlling thread ended
    loggers,       \* the UserActionLogger instances created so far: [user_id, action_count]
    default_logger,\* user_action_logger._default_logger: None, or the instance it refers to
    entries,       \* the USER_ACTION entries written so far: [logger, action_id, action_type]
    stoppers,      \* where each thread is inside stop_listening: 0 is the controlling
                   \* thread, w the processing thread w
    streamCalls,   \* stop_stream() and close() calls each stream object has received
    dispatching    \* where the processing thread is inside process_result

pipeVars == <<recognizer, sample_rate, is_listening, stream, streams, terminated,
              audio_queue, pushed, popped, workers, processed, calls>>

routerVars == <<commands, text, invoked, lastReg>>

loggerVars == <<loggers, default_logger, entries>>

stepVars == <<stoppers, streamCalls, dispatching>>

vars == <<pipeVars, routerVars, outcome, loggerVars, stepVars>>

(***************************************************************************)
(* Bounds                                                                  *)
(***************************************************************************)
\* longest phrase or recognised text, in characters
MaxLen == 2
\* most entries the registry is grown to
MaxCmds == 2
\* most frames the audio callback delivers
MaxFrames == 3
\* most streams opened, which is also the most processing threads started
MaxStarts == 2
\* most calls of cleanup
MaxCleanups == 2
\* most chunks readframes returns from one file
MaxChunks == 2
\* most UserActionLogger instances created
MaxLoggers == 2
\* most USER_ACTION entries written
MaxEntries == 3
\* most stop_stream() calls, and most close() calls, followed on one stream
MaxStreamCalls == 2

(***************************************************************************)
(* Program constants                                                       *)
(***************************************************************************)
\* the default sample_rate of VoiceRecognition.__init__
SampleRate == 16000

\* the rates a VoiceRecognition is constructed with, or a file is recorded at
SampleRates == {SampleRate, 8000}

(***************************************************************************)
(* Text                                                                    *)
(***************************************************************************)
Chars == {"a", "A", "b", " "}

Strings == UNION {[1..n -> Chars] : n \in 0..MaxLen}

\* the handlers of the example program: hello_command only prints,
\* goodbye_command also calls stop_listening
Handlers == {"hello", "goodbye"}

LowerChar(c) == IF c = "A" THEN "a" ELSE c

\* str.lower()
Lower(s) == [i \in 1..Len(s) |-> LowerChar(s[i])]

IsSpace(c) == c = " "

RECURSIVE LStrip(_)
LStrip(s) == IF s # <<>> /\ IsSpace(Head(s)) THEN LStrip(Tail(s)) ELSE s

RECURSIVE RStrip(_)
RStrip(s) ==
    IF s # <<>> /\ IsSpace(s[Len(s)]) THEN RStrip(SubSeq(s, 1, Len(s) - 1)) ELSE s

\* str.strip()
Strip(s) == RStrip(LStrip(s))

\* Python's `sub in s` on strings: sub occurs in s as a contiguous run
IsSubstring(sub, s) ==
    \E i \in 0..Len(s) :
        /\ i + Len(sub) <= Len(s)
        /\ SubSeq(s, i + 1, i + Len(sub)) = sub

\* result.get('text', '').lower().strip()
NormalizeText(raw) == Strip(Lower(raw))

(***************************************************************************)
(* How a call made by the controlling thread ended                         *)
(***************************************************************************)
None == 0

\* op: the method; arg: its argument; ret: "None" or "str", with the string
\* in value; raised: the exception that left the call, or "none"; log: the
\* highest level the call logged at; fed: recognizer methods the call invoked
Outcome(op, arg, ret, value, raised, log, fed) ==
    [op |-> op, arg |-> arg, ret |-> ret, value |-> value,
     raised |-> raised, log |-> log, fed |-> fed]

NoOutcome == Outcome("init", None, "None", <<>>, "none", "info", 0)

\* the threads that can call stop_listening: the controlling thread and the
\* processing threads
Threads == 0..MaxStarts

\* a stream object nothing has been called on
NoCalls == [stop_stream |-> 0, close |-> 0]

\* no process_result call is under way
NotDispatching ==
    [pc |-> "none", t |-> <<>>, i |-> 0, size |-> 0, before |-> <<>>,
     reg |-> <<>>, raised |-> FALSE]

\* no frame has been processed yet
NoneProcessed == [worker |-> 0, kind |-> "none", text |-> <<>>, fault |-> FALSE]

(***************************************************************************)
(* VoiceCommandHandler                                                     *)
(***************************************************************************)
\* position of key k in the dict, 0 when absent
KeyIndex(cmds, k) ==
    IF \E i \in 1..Len(cmds) : cmds[i].phrase = k
    THEN CHOOSE i \in 1..Len(cmds) : cmds[i].phrase = k
    ELSE 0

\* a dict assignment d[k] = v: an existing key keeps its position
DictSet(cmds, k, v) ==
    IF KeyIndex(cmds, k) # 0
    THEN [cmds EXCEPT ![KeyIndex(cmds, k)].handler = v]
    ELSE Append(cmds, [phrase |-> k, handler |-> v])

\* self.commands[command.lower()] = handler
Register(cmds, command, handler) == DictSet(cmds, Lower(command), handler)

\* the loop over self.commands.items(): the first entry from position i on
\* whose key occurs in t
RECURSIVE PartialMatch(_, _, _)
PartialMatch(cmds, t, i) ==
    IF i > Len(cmds) THEN <<>>
    ELSE IF IsSubstring(cmds[i].phrase, t) THEN <<cmds[i].handler>>
    ELSE PartialMatch(cmds, t, i + 1)

\* the loop run from the last entry to the first
RECURSIVE PartialMatchBackwards(_, _, _)
PartialMatchBackwards(cmds, t, i) ==
    IF i < 1 THEN <<>>
    ELSE IF IsSubstring(cmds[i].phrase, t) THEN <<cmds[i].handler>>
    ELSE PartialMatchBackwards(cmds, t, i - 1)

\* process_result with the partial-match loop before the exact lookup
ProcessResultPartialFirst(cmds, raw) ==
    LET t == NormalizeText(raw) IN
    IF t = <<>> THEN <<>>
    ELSE IF PartialMatch(cmds, t, 1) # <<>> THEN PartialMatch(cmds, t, 1)
    ELSE IF KeyIndex(cmds, t) # 0 THEN <<cmds[KeyIndex(cmds, t)].handler>>
    ELSE <<>>

\* process_result taking the last matching entry instead of the first
ProcessResultLastMatch(cmds, raw) ==
    LET t == NormalizeText(raw) IN
    IF t = <<>> THEN <<>>
    ELSE IF KeyIndex(cmds, t) # 0 THEN <<cmds[KeyIndex(cmds, t)].handler>>
    ELSE PartialMatchBackwards(cmds, t, Len(cmds))

\* process_result without the return that follows the exact match
ProcessResultFallThrough(cmds, raw) ==
    LET t == NormalizeText(raw) IN
    IF t = <<>> THEN <<>>
    ELSE (IF KeyIndex(cmds, t) # 0 THEN <<cmds[KeyIndex(cmds, t)].handler>> ELSE <<>>)
         \o PartialMatch(cmds, t, 1)

\* process_result: the handlers it calls, in call order
ProcessResult(cmds, raw) ==
    LET t == NormalizeText(raw) IN
    IF t = <<>> THEN <<>>
    ELSE IF KeyIndex(cmds, t) # 0 THEN <<cmds[KeyIndex(cmds, t)].handler>>
    ELSE PartialMatch(cmds, t, 1)

\* VoiceCommandHandler.register_command(command, handler)
RegisterCommand(command, handler) ==
    /\ Len(Register(commands, command, handler)) <= MaxCmds
    /\ commands' = Register(commands, command, handler)
    /\ lastReg' = [command |-> command, handler |-> handler]
    /\ text' = <<>>
    /\ invoked' = <<>>
    /\ outcome' = Outcome("register_command", command, "None", <<>>, "none", "info", 0)
    /\ UNCHANGED pipeVars
    /\ UNCHANGED <<loggerVars, stepVars>>

\* VoiceCommandHandler.process_result({'text': raw}) called directly
Dispatch(raw) ==
    /\ text' = raw
    /\ invoked' = ProcessResult(commands, raw)
    /\ outcome' = Outcome("process_result", raw, "None", <<>>, "none", "info", 0)
    /\ UNCHANGED <<commands, lastReg>>
    /\ UNCHANGED pipeVars
    /\ UNCHANGED <<loggerVars, stepVars>>

\* state after VoiceRecognition() and VoiceCommandHandler(vr), both idle
InitRouter ==
    /\ recognizer = TRUE
    /\ sample_rate = SampleRate
    /\ is_listening = FALSE
    /\ stream = None
    /\ streams = <<>>
    /\ terminated = 0
    /\ audio_queue = <<>>
    /\ pushed = <<>>
    /\ popped = <<>>
    /\ workers = <<>>
    /\ processed = NoneProcessed
    /\ calls = <<>>
    /\ commands = <<>>
    /\ text = <<>>
    /\ invoked = <<>>
    /\ lastReg = [command |-> <<>>, handler |-> "none"]
    /\ outcome = NoOutcome
    /\ loggers = <<>>
    /\ default_logger = None
    /\ entries = <<>>
    /\ stoppers = [t \in Threads |-> "none"]
    /\ streamCalls = [i \in 1..MaxStarts |-> NoCalls]
    /\ dispatching = NotDispatching

NextRouter ==
    \/ \E c \in Strings, h \in Handlers : RegisterCommand(c, h)
    \/ \E raw \in Strings : Dispatch(raw)

\* registrations and dispatches in any order, with the pipeline idle
SpecRouter == InitRouter /\ [][NextRouter]_vars

(***************************************************************************)
(* VoiceRecognition: lifecycle                                             *)
(***************************************************************************)
\* the last two lifecycle calls, after one more
Called(op) == IF Len(calls) < 2 THEN Append(calls, op) ELSE <<calls[2], op>>

OpenStreams == {i \in 1..Len(streams) : streams[i] = "open"}

AliveWorkers == {w \in 1..Len(workers) : workers[w].pc # "done"}

\* the body of stop_listening after its guard: clear the flag, then stop and
\* close the stream self.stream refers to, if any, and forget it
StopBody ==
    /\ is_listening' = FALSE
    /\ stream' = None
    /\ streams' = IF stream # None THEN [streams EXCEPT ![stream] = "closed"] ELSE streams

\* stop_listening as executed by whichever thread calls it
StopListeningCall ==
    IF ~is_listening THEN UNCHANGED <<is_listening, stream, streams>> ELSE StopBody

\* VoiceRecognition.start_listening(callback); opened is whether
\* self.audio.open succeeds, which it cannot once PortAudio is terminated
StartListening(opened) ==
    /\ calls' = Called("start_listening")
    /\ IF ~recognizer
       THEN /\ outcome' = Outcome("start_listening", None, "None", <<>>, "none", "error", 0)
            /\ UNCHANGED <<is_listening, stream, streams, workers>>
       ELSE IF is_listening
       THEN /\ outcome' = Outcome("start_listening", None, "None", <<>>, "none", "warning", 0)
            /\ UNCHANGED <<is_listening, stream, streams, workers>>
       ELSE IF ~opened \/ terminated > 0
       THEN /\ is_listening' = TRUE
            /\ outcome' = Outcome("start_listening", None, "None", <<>>, "OSError", "info", 0)
            /\ UNCHANGED <<stream, streams, workers>>
       ELSE /\ Len(streams) < MaxStarts
            /\ is_listening' = TRUE
            /\ streams' = Append(streams, "open")
            /\ stream' = Len(streams) + 1
            /\ workers' = Append(workers, [pc |-> "check", data |-> None])
            /\ outcome' = Outcome("start_listening", None, "None", <<>>, "none", "info", 0)
    /\ UNCHANGED <<recognizer, sample_rate, processed, terminated, audio_queue, pushed, popped>>
    /\ UNCHANGED routerVars
    /\ UNCHANGED <<loggerVars, stepVars>>

\* stop_listening without `if not self.is_listening: return` and without
\* `if self.stream:`: stop_stream() is then called on None when idle
StopListeningUnguarded ==
    /\ calls' = Called("stop_listening")
    /\ StopBody
    /\ outcome' = Outcome("stop_listening", None, "None", <<>>,
                          IF stream = None THEN "AttributeError" ELSE "none", "info", 0)
    /\ UNCHANGED <<recognizer, sample_rate, processed, terminated, audio_queue, pushed, popped, workers>>
    /\ UNCHANGED routerVars
    /\ UNCHANGED <<loggerVars, stepVars>>

\* VoiceRecognition.stop_listening() called by the controlling thread
StopListening ==
    /\ calls' = Called("stop_listening")
    /\ StopListeningCall
    /\ outcome' = Outcome("stop_listening", None, "None", <<>>, "none", "info", 0)
    /\ UNCHANGED <<recognizer, sample_rate, processed, terminated, audio_queue, pushed, popped, workers>>
    /\ UNCHANGED routerVars
    /\ UNCHANGED <<loggerVars, stepVars>>

\* cleanup that also empties the command registry
CleanupForgetsCommands ==
    /\ terminated < MaxCleanups
    /\ calls' = Called("cleanup")
    /\ StopListeningCall
    /\ terminated' = terminated + 1
    /\ outcome' = Outcome("cleanup", None, "None", <<>>, "none", "info", 0)
    /\ commands' = <<>>
    /\ UNCHANGED <<recognizer, sample_rate, processed, audio_queue, pushed, popped, workers>>
    /\ UNCHANGED <<text, invoked, lastReg>>
    /\ UNCHANGED <<loggerVars, stepVars>>

\* VoiceRecognition.cleanup(): stop_listening, then self.audio.terminate(),
\* since self.audio is never cleared
Cleanup ==
    /\ terminated < MaxCleanups
    /\ calls' = Called("cleanup")
    /\ StopListeningCall
    /\ terminated' = terminated + 1
    /\ outcome' = Outcome("cleanup", None, "None", <<>>, "none", "info", 0)
    /\ UNCHANGED <<recognizer, sample_rate, processed, audio_queue, pushed, popped, workers>>
    /\ UNCHANGED routerVars
    /\ UNCHANGED <<loggerVars, stepVars>>

(***************************************************************************)
(* The audio callback and the processing thread                            *)
(***************************************************************************)
\* queue.Queue.put at the front of the queue instead of the back
QueuePutFront(q, x) == <<x>> \o q

\* queue.Queue.put: the queue is first-in first-out
QueuePut(q, x) == Append(q, x)

\* VoiceRecognition._audio_callback, run by the device's thread for each
\* frame while a stream is open and started; frames are numbered as delivered
AudioCallback ==
    /\ OpenStreams # {}
    /\ Len(pushed) < MaxFrames
    /\ audio_queue' = QueuePut(audio_queue, Len(pushed) + 1)
    /\ pushed' = Append(pushed, Len(pushed) + 1)
    /\ UNCHANGED <<recognizer, sample_rate, processed, is_listening, stream, streams, terminated,
                   popped, workers, calls>>
    /\ UNCHANGED <<routerVars, outcome>>
    /\ UNCHANGED <<loggerVars, stepVars>>

\* the text of a final result of the recognizer
DecoderTexts == {<<>>, <<"a">>, <<"b">>}

\* what one AcceptWaveform call leads to: it (or the parsing of its result)
\* raises, it returns False (a partial result), or it returns True and
\* Result() carries text; raises is whether a handler called for that text
\* raises at the end of its body
DecoderSteps ==
    {[kind |-> k, text |-> <<>>, raises |-> FALSE] : k \in {"error", "partial"}}
        \cup {[kind |-> "final", text |-> t, raises |-> FALSE] : t \in DecoderTexts}
        \cup {[kind |-> "final", text |-> t, raises |-> TRUE] : t \in DecoderTexts \ {<<>>}}

\* the callback called for every result, partial or final, with or without text
DispatchesEveryResult(r) == r.kind # "error"

\* `if callback and result.get('text')` under `if AcceptWaveform(data)`
Dispatches(r) == r.kind = "final" /\ r.text # <<>>

\* an exception that leaves the loop altogether
PcAfterExceptionExits == "done"

\* `except Exception` sits inside the while loop: after logging, the thread
\* is back at the loop's test
PcAfterException == "check"

\* _process_audio: the test of `while self.is_listening`
WorkerCheck(w) ==
    /\ workers[w].pc = "check"
    /\ workers' = [workers EXCEPT ![w].pc = IF is_listening THEN "get" ELSE "done"]
    /\ UNCHANGED <<recognizer, sample_rate, processed, is_listening, stream, streams, terminated,
                   audio_queue, pushed, popped, calls>>
    /\ UNCHANGED <<routerVars, outcome>>
    /\ UNCHANGED <<loggerVars, stepVars>>

\* self.audio_queue.get(timeout=1) returning a frame
WorkerGet(w) ==
    /\ workers[w].pc = "get"
    /\ audio_queue # <<>>
    /\ workers' = [workers EXCEPT ![w] = [pc |-> "process", data |-> Head(audio_queue)]]
    /\ audio_queue' = Tail(audio_queue)
    /\ popped' = Append(popped, Head(audio_queue))
    /\ UNCHANGED <<recognizer, sample_rate, processed, is_listening, stream, streams, terminated,
                   pushed, calls>>
    /\ UNCHANGED <<routerVars, outcome>>
    /\ UNCHANGED <<loggerVars, stepVars>>

\* self.audio_queue.get(timeout=1) raising queue.Empty: continue
WorkerTimeout(w) ==
    /\ workers[w].pc = "get"
    /\ audio_queue = <<>>
    /\ workers' = [workers EXCEPT ![w].pc = "check"]
    /\ UNCHANGED <<recognizer, sample_rate, processed, is_listening, stream, streams, terminated,
                   audio_queue, pushed, popped, calls>>
    /\ UNCHANGED <<routerVars, outcome>>
    /\ UNCHANGED <<loggerVars, stepVars>>

\* the rest of the loop body for the frame taken: AcceptWaveform, and for a
\* final result with text the callback, VoiceCommandHandler.process_result,
\* with the handlers it calls; goodbye_command calls stop_listening
WorkerProcess(w, r) ==
    /\ workers[w].pc = "process"
    /\ IF Dispatches(r)
       THEN /\ text' = r.text
            /\ invoked' = ProcessResult(commands, r.text)
            /\ IF \E i \in 1..Len(invoked') : invoked'[i] = "goodbye"
               THEN /\ calls' = Called("stop_listening")
                    /\ StopListeningCall
               ELSE UNCHANGED <<is_listening, stream, streams, calls>>
       ELSE UNCHANGED <<text, invoked, is_listening, stream, streams, calls>>
    /\ processed' = [worker |-> w, kind |-> r.kind, text |-> r.text,
                     fault |-> r.kind = "error" \/ (r.raises /\ invoked' # <<>>)]
    /\ workers' = [workers EXCEPT ![w] =
                      [pc |-> IF processed'.fault THEN PcAfterException ELSE "check",
                       data |-> None]]
    /\ UNCHANGED <<recognizer, sample_rate, terminated, audio_queue, pushed, popped>>
    /\ UNCHANGED <<commands, lastReg, outcome>>
    /\ UNCHANGED <<loggerVars, stepVars>>

\* the registrations of the example program
ExampleCommands ==
    Register(Register(<<>>, <<"a">>, "hello"), <<"b">>, "goodbye")

\* state after VoiceRecognition(), with or without a model found, and after
\* the example program's VoiceCommandHandler(vr) and its registrations
Init ==
    /\ recognizer \in BOOLEAN
    /\ sample_rate = SampleRate
    /\ is_listening = FALSE
    /\ stream = None
    /\ streams = <<>>
    /\ terminated = 0
    /\ audio_queue = <<>>
    /\ pushed = <<>>
    /\ popped = <<>>
    /\ workers = <<>>
    /\ processed = NoneProcessed
    /\ calls = <<>>
    /\ commands = ExampleCommands
    /\ text = <<>>
    /\ invoked = <<>>
    /\ lastReg = [command |-> <<"b">>, handler |-> "goodbye"]
    /\ outcome = NoOutcome
    /\ loggers = <<>>
    /\ default_logger = None
    /\ entries = <<>>
    /\ stoppers = [t \in Threads |-> "none"]
    /\ streamCalls = [i \in 1..MaxStarts |-> NoCalls]
    /\ dispatching = NotDispatching

Next ==
    \/ \E opened \in BOOLEAN : StartListening(opened)
    \/ StopListening
    \/ Cleanup
    \/ AudioCallback
    \/ \E w \in 1..Len(workers) : WorkerCheck(w)
    \/ \E w \in 1..Len(workers) : WorkerGet(w)
    \/ \E w \in 1..Len(workers) : WorkerTimeout(w)
    \/ \E w \in 1..Len(workers), r \in DecoderSteps : WorkerProcess(w, r)

\* the controlling thread, the device's thread and the processing threads,
\* interleaved
Spec == Init /\ [][Next]_vars

\* one step of processing thread w
WorkerStep(w) ==
    /\ w \in 1..Len(workers)
    /\ \/ WorkerCheck(w)
       \/ WorkerGet(w)
       \/ WorkerTimeout(w)
       \/ \E r \in DecoderSteps : WorkerProcess(w, r)

\* the same program with every processing thread scheduled again and again:
\* a thread that can take a step is not held back forever; the controlling
\* thread and the device are free to act or not
SpecFair == Spec /\ \A w \in 1..MaxStarts : WF_vars(WorkerStep(w))

(***************************************************************************)
(* VoiceRecognition.recognize_from_file                                    *)
(***************************************************************************)
\* the WAV containers wave.open can read: channels, sample width in bytes,
\* frame rate, and the number of chunks readframes(buffer_size) yields
Files ==
    [nchannels : {1, 2}, sampwidth : {1, 2}, framerate : SampleRates,
     chunks : 0..MaxChunks]

\* the format test without its channel count
FormatOkAnyChannels(f) == f.sampwidth = 2 /\ f.framerate = sample_rate

\* the negation of the test that guards the error return:
\* getnchannels() != 1 or getsampwidth() != 2 or getframerate() != self.sample_rate
FormatOk(f) == f.nchannels = 1 /\ f.sampwidth = 2 /\ f.framerate = sample_rate

\* " ".join(results)
RECURSIVE JoinWithSpace(_)
JoinWithSpace(results) ==
    IF results = <<>> THEN <<>>
    ELSE IF Len(results) = 1 THEN results[1]
    ELSE results[1] \o <<" ">> \o JoinWithSpace(Tail(results))

\* the chunk loop appending the text of every chunk, whether AcceptWaveform
\* returned True for it or not
RECURSIVE ChunkResultsWithPartials(_)
ChunkResultsWithPartials(steps) ==
    IF steps = <<>> THEN <<>>
    ELSE (IF steps[1].text # <<>> THEN <<steps[1].text>> ELSE <<>>)
         \o ChunkResultsWithPartials(Tail(steps))

\* the results list after the chunk loop: the text of each chunk for which
\* AcceptWaveform returned True and Result() carried text
RECURSIVE ChunkResults(_)
ChunkResults(steps) ==
    IF steps = <<>> THEN <<>>
    ELSE (IF steps[1].accept /\ steps[1].text # <<>> THEN <<steps[1].text>> ELSE <<>>)
         \o ChunkResults(Tail(steps))

\* the file a recognize_from_file call was made on, with the answers the
\* recognizer gave during the call: one per chunk read, then FinalResult()
FileCall(f, steps, finalText) ==
    [nchannels |-> f.nchannels, sampwidth |-> f.sampwidth, framerate |-> f.framerate,
     chunks |-> f.chunks, steps |-> steps, final |-> finalText]

\* VoiceRecognition.recognize_from_file(file_path) on a readable container f;
\* steps are the recognizer's answers to the chunks, finalText the text of
\* FinalResult()
RecognizeFromFile(f, steps, finalText) ==
    /\ outcome' =
         IF ~recognizer
         THEN Outcome("recognize_from_file", FileCall(f, <<>>, <<>>), "str", <<>>,
                      "none", "info", 0)
         ELSE IF ~FormatOk(f)
         THEN Outcome("recognize_from_file", FileCall(f, <<>>, <<>>), "str", <<>>,
                      "none", "error", 0)
         ELSE Outcome("recognize_from_file", FileCall(f, steps, finalText), "str",
                      JoinWithSpace(ChunkResults(steps)
                          \o (IF finalText # <<>> THEN <<finalText>> ELSE <<>>)),
                      "none", "info", f.chunks + 1)
    /\ UNCHANGED <<pipeVars, routerVars>>
    /\ UNCHANGED <<loggerVars, stepVars>>

NextFile ==
    \E f \in Files :
        \E steps \in [1..f.chunks -> [accept : BOOLEAN, text : DecoderTexts]],
           finalText \in DecoderTexts :
            RecognizeFromFile(f, steps, finalText)

\* state after VoiceRecognition(sample_rate=...), with or without a model
InitFile ==
    /\ recognizer \in BOOLEAN
    /\ sample_rate \in SampleRates
    /\ is_listening = FALSE
    /\ stream = None
    /\ streams = <<>>
    /\ terminated = 0
    /\ audio_queue = <<>>
    /\ pushed = <<>>
    /\ popped = <<>>
    /\ workers = <<>>
    /\ processed = NoneProcessed
    /\ calls = <<>>
    /\ commands = <<>>
    /\ text = <<>>
    /\ invoked = <<>>
    /\ lastReg = [command |-> <<>>, handler |-> "none"]
    /\ outcome = NoOutcome
    /\ loggers = <<>>
    /\ default_logger = None
    /\ entries = <<>>
    /\ stoppers = [t \in Threads |-> "none"]
    /\ streamCalls = [i \in 1..MaxStarts |-> NoCalls]
    /\ dispatching = NotDispatching

\* files recognised one after another
SpecFile == InitFile /\ [][NextFile]_vars

(***************************************************************************)
(* Claims about VoiceCommandHandler, checked under SpecRouter              *)
(***************************************************************************)
\* the normalized text of the last process_result call
Normalized == NormalizeText(text)

\* the registry positions whose phrase occurs in the normalized text
Matching == {i \in 1..Len(commands) : IsSubstring(commands[i].phrase, Normalized)}

\* the least element of a non-empty set of positions
Least(S) == CHOOSE i \in S : \A j \in S : i <= j

\* C3, as amended: after process_result on a text whose normalized form is
\* not empty and equals a registered phrase, exactly that phrase's handler
\* has been called, once, and no other handler, whatever else is registered.
C3_ExactMatchNonEmpty ==
    outcome.op = "process_result" =>
        \A i \in 1..Len(commands) :
            (Normalized # <<>> /\ commands[i].phrase = Normalized)
                => invoked = <<commands[i].handler>>

\* C3 witness: the text equals the second phrase while the first phrase, with
\* another handler, is a proper substring of it; the second handler ran.
C3_Witness ==
    /\ outcome.op = "process_result"
    /\ Len(commands) = 2
    /\ commands[2].phrase = Normalized
    /\ commands[1].phrase # <<>>
    /\ IsSubstring(commands[1].phrase, Normalized)
    /\ commands[1].handler # commands[2].handler
    /\ invoked = <<commands[2].handler>>

\* C3 as stated: after process_result on any text whose normalized form
\* equals a registered phrase, exactly that phrase's handler has been called.
C3_ExactMatch ==
    outcome.op = "process_result" =>
        \A i \in 1..Len(commands) :
            commands[i].phrase = Normalized => invoked = <<commands[i].handler>>

\* C4: after process_result on a text whose normalized form equals no
\* registered phrase but contains at least one as a substring, only the
\* handler of the earliest registered such phrase has been called.
C4_PartialMatchFirst ==
    (/\ outcome.op = "process_result"
     /\ \A i \in 1..Len(commands) : commands[i].phrase # Normalized
     /\ Matching # {})
        => invoked = <<commands[Least(Matching)].handler>>

\* C4 witness: two phrases with different handlers both occur in the text,
\* neither equals it, and the handler of the first one ran.
C4_Witness ==
    /\ outcome.op = "process_result"
    /\ Len(commands) = 2
    /\ Matching = {1, 2}
    /\ commands[1].phrase # Normalized
    /\ commands[2].phrase # Normalized
    /\ commands[1].phrase # <<>>
    /\ commands[2].phrase # <<>>
    /\ commands[1].handler # commands[2].handler
    /\ invoked = <<commands[1].handler>>

\* whether some registered phrase equals the normalized text or occurs in it
SomePhraseMatches ==
    \E i \in 1..Len(commands) :
        commands[i].phrase = Normalized \/ IsSubstring(commands[i].phrase, Normalized)

\* C5, as amended: one process_result call calls exactly one handler when the
\* normalized text is not empty and some registered phrase equals it or
\* occurs in it, and none when the normalized text is empty or nothing
\* matches; never more than one; and the call leaves the registry as it was.
C5_AtMostOneHandler ==
    /\ [](outcome.op = "process_result" =>
            /\ Len(invoked) <= 1
            /\ (Normalized # <<>> /\ SomePhraseMatches) => Len(invoked) = 1
            /\ (Normalized = <<>> \/ ~SomePhraseMatches) => Len(invoked) = 0)
    /\ [][(\E raw \in Strings : Dispatch(raw)) => commands' = commands]_vars

\* C5 witness: with two phrases registered that both occur in the text, one
\* handler ran.
C5_Witness ==
    /\ outcome.op = "process_result"
    /\ Matching = {1, 2}
    /\ commands[1].phrase # <<>>
    /\ commands[2].phrase # <<>>
    /\ Len(invoked) = 1

\* C5 as stated: exactly one handler when some registered phrase equals the
\* normalized text or occurs in it, none when the normalized text is empty
\* or nothing matches.
C5_HandlerCount ==
    outcome.op = "process_result" =>
        /\ SomePhraseMatches => Len(invoked) = 1
        /\ (Normalized = <<>> \/ ~SomePhraseMatches) => Len(invoked) = 0

\* whether p and t differ at most in the case of their letters
SameButCase(p, t) ==
    /\ Len(p) = Len(t)
    /\ \A i \in 1..Len(p) : LowerChar(p[i]) = LowerChar(t[i])

\* C6: process_result on a text that differs only in letter case from the
\* phrase last registered calls that registration's handler, and only it.
\* Stated here for the texts that have a letter in them, which
\* process_result does not discard as empty: a text that violates this
\* violates the claim for every text.
C6_CaseInsensitive ==
    (/\ outcome.op = "process_result"
     /\ lastReg.handler # "none"
     /\ SameButCase(lastReg.command, text)
     /\ \E i \in 1..Len(text) : ~IsSpace(text[i]))
        => invoked = <<lastReg.handler>>

\* C7: every key of the registry is lower-cased and trimmed, and
\* process_result on the trimmed form of the phrase last registered, when
\* that form is not empty, calls that registration's handler.
C7_RegisterNormalizes ==
    /\ \A i \in 1..Len(commands) :
           commands[i].phrase = Strip(Lower(commands[i].phrase))
    /\ (/\ outcome.op = "process_result"
        /\ lastReg.handler # "none"
        /\ text = Strip(lastReg.command)
        /\ text # <<>>)
           => invoked = <<lastReg.handler>>

(***************************************************************************)
(* Claims about the VoiceRecognition lifecycle, checked under Spec         *)
(***************************************************************************)
\* C1: when start_listening has been called with no recognizer, the pipeline
\* is idle, no stream is open, no processing thread exists, and the call has
\* handed its caller a ConfigurationError without raising.
C1_StartWithoutRecognizer ==
    (outcome.op = "start_listening" /\ ~recognizer) =>
        /\ ~is_listening
        /\ stream = None
        /\ OpenStreams = {}
        /\ workers = <<>>
        /\ outcome.raised = "none"
        /\ outcome.ret = "ConfigurationError"

\* C2: after two consecutive start_listening calls with no stop_listening
\* between them, exactly one stream is open and exactly one processing
\* thread is alive. Stated here for the case the claim is about: the first
\* call opened the stream, so that the second was made while listening.
C2_DoubleStart ==
    (/\ calls = <<"start_listening", "start_listening">>
     /\ is_listening
     /\ stream # None)
        => (Cardinality(OpenStreams) = 1 /\ Cardinality(AliveWorkers) = 1)

\* C8: the frames taken from audio_queue so far, in the order taken, followed
\* by the frames still queued, are the frames put so far in the order put: the
\* frames taken are a prefix of the frames put, none lost, repeated or
\* reordered.
C8_Fifo ==
    /\ pushed = popped \o audio_queue
    /\ Len(popped) <= Len(pushed)
    /\ \A i \in 1..Len(popped) : popped[i] = pushed[i]

\* C8 witness: frames were put faster than taken: a frame has been taken
\* while two more wait in the queue.
C8_Witness ==
    /\ Len(popped) >= 1
    /\ Len(audio_queue) >= 2

\* C10: a cleanup call that directly follows a cleanup call changes nothing
\* that can be observed (the listening flag, the stream, the streams open,
\* the number of times the device resource was released) and does not raise.
C10_CleanupIdempotent ==
    [][(calls # <<>> /\ calls[Len(calls)] = "cleanup" /\ Cleanup)
          => (/\ UNCHANGED <<is_listening, stream, streams, terminated>>
              /\ outcome'.raised = "none")]_vars

(***************************************************************************)
(* Claims about recognize_from_file, checked under SpecFile                *)
(***************************************************************************)
\* whether the file last given to recognize_from_file is not mono, not
\* 16-bit, or not at the configured sample rate
Mismatched ==
    \/ outcome.arg.nchannels # 1
    \/ outcome.arg.sampwidth # 2
    \/ outcome.arg.framerate # sample_rate

C11_StopWhileIdleNoOp ==
    [][(StopListening /\ ~is_listening) =>
           /\ UNCHANGED <<is_listening, stream, streams, audio_queue, commands>>
           /\ outcome'.raised = "none"]_vars

\* stop_listening has been called twice in a row, the second time while idle
\* and with frames still queued
C11_Witness ==
    /\ calls = <<"stop_listening", "stop_listening">>
    /\ outcome.op = "stop_listening"
    /\ ~is_listening
    /\ audio_queue # <<>>
    /\ streams # <<>>

AllWorkers == 1..Len(workers)

\* C12: an exception raised while one frame is processed (by AcceptWaveform,
\* by the parsing of its result, or by a handler) leaves the processing
\* thread at the test of its loop; a thread ends only by finding the flag
\* cleared at that test, and while the flag is set it goes on to take a frame
C12_FaultIsolation ==
    [][\A w \in AllWorkers :
           /\ (/\ workers[w].pc = "process"
               /\ workers'[w].pc # "process"
               /\ processed'.worker = w
               /\ processed'.fault) => workers'[w].pc = "check"
           /\ (workers[w].pc # "done" /\ workers'[w].pc = "done")
                  => (workers[w].pc = "check" /\ ~is_listening)
           /\ (workers[w].pc = "check" /\ workers'[w].pc # "check" /\ is_listening)
                  => workers'[w].pc = "get"]_vars

\* a handler raised while a frame was processed, and the same thread has
\* taken a following frame
C12_Witness ==
    /\ processed.fault
    /\ processed.kind = "final"
    /\ workers[processed.worker].pc = "process"
    /\ is_listening
    /\ Len(popped) >= 2

\* C13: the loop body hands a result to the command router only when
\* AcceptWaveform returned True and the result carries text: a run of the body
\* on a partial result, on a final result without text or on an exception
\* leaves the last dispatch and the lifecycle untouched, and the handlers
\* called are always those of a dispatch of non-empty text
C13_OnlyFinalWithText ==
    /\ [](invoked # <<>> => text # <<>>)
    /\ []((processed.kind = "final" /\ processed.text # <<>>) => text = processed.text)
    /\ [][\A w \in AllWorkers :
              (/\ workers[w].pc = "process"
               /\ workers'[w].pc # "process"
               /\ (processed'.kind # "final" \/ processed'.text = <<>>))
                  => UNCHANGED <<text, invoked, is_listening, stream, streams, calls>>]_vars

\* the last frame processed gave a partial result, and the last dispatch is
\* still the earlier one of a final result with text, which called a handler
C13_Witness ==
    /\ processed.kind = "partial"
    /\ text # <<>>
    /\ invoked # <<>>
    /\ Len(popped) >= 2

\* C14: once stop_listening has closed the stream that start_listening
\* opened together with processing thread w, thread w eventually ends
C14_CooperativeCancellation ==
    \A w \in 1..MaxStarts :
        (w <= Len(streams) /\ streams[w] = "closed")
            ~> (w <= Len(workers) /\ workers[w].pc = "done")

\* the last run of the loop body, by thread w, dispatched a text whose
\* handler called stop_listening
SelfStopped(w) ==
    /\ processed.worker = w
    /\ processed.kind = "final"
    /\ processed.text # <<>>
    /\ \E i \in 1..Len(invoked) : invoked[i] = "goodbye"

\* C15: when a handler run by processing thread w calls stop_listening, the
\* call returns with the flag cleared, no stream referred to and the stream
\* of the session closed, and thread w ends at its next test of the flag,
\* without taking another frame
C15_SelfStop ==
    [][\A w \in AllWorkers :
           /\ (workers[w].pc = "process" /\ workers'[w].pc # "process" /\ SelfStopped(w)')
                  => /\ ~is_listening'
                     /\ stream' = None
                     /\ stream # None => streams'[stream] = "closed"
           /\ (SelfStopped(w) /\ workers[w].pc = "check" /\ workers'[w].pc # "check")
                  => workers'[w].pc = "done"]_vars

\* C16: when a stop_listening or cleanup call made by the controlling thread
\* ends a session, the processing thread started with that session's stream
\* has ended in the state the call returns in
C16_StopJoinsWorker ==
    [][((StopListening \/ Cleanup) /\ is_listening /\ stream # None)
           => workers'[stream].pc = "done"]_vars

(***************************************************************************)
(* The registry across registrations and sessions                          *)
(***************************************************************************)
\* C17: a register_command call for a phrase whose normalized form (lower
\* case, trimmed) is already a key of the registry leaves the number and the
\* order of the keys as they were and puts the new handler at that key,
\* every other entry keeping its handler
C17_ReRegisterInPlace ==
    [][(/\ outcome'.op = "register_command"
        /\ \E i \in 1..Len(commands) :
               commands[i].phrase = NormalizeText(lastReg'.command))
           => /\ Len(commands') = Len(commands)
              /\ \A i \in 1..Len(commands) :
                     /\ commands'[i].phrase = commands[i].phrase
                     /\ commands'[i].handler =
                            IF commands[i].phrase = NormalizeText(lastReg'.command)
                            THEN lastReg'.handler
                            ELSE commands[i].handler]_vars

\* C18: start_listening, stop_listening and cleanup leave the registry as it
\* is, phrases, handlers and order, so that in whichever session a text is
\* dispatched, the handlers called are those the registrations made before
\* the first session give for it
C18_RegistryPersists ==
    /\ [][((\E opened \in BOOLEAN : StartListening(opened)) \/ StopListening \/ Cleanup)
             => commands' = commands]_vars
    /\ [](commands = ExampleCommands)
    /\ []((processed.kind = "final" /\ processed.text # <<>>)
             => invoked = ProcessResult(ExampleCommands, processed.text))

\* the processing thread of the second session has dispatched the phrase of
\* hello_command, registered before the first session, which is over
C18_Witness ==
    /\ Len(streams) = 2
    /\ streams[1] = "closed"
    /\ processed.worker = 2
    /\ processed.kind = "final"
    /\ processed.text = <<"a">>
    /\ invoked = <<"hello">>

(***************************************************************************)
(* Claims about recognize_from_file, continued                             *)
(***************************************************************************)
\* the texts of the first n answers that are final results with text
RECURSIVE FinalTextsUpTo(_, _)
FinalTextsUpTo(steps, n) ==
    IF n = 0 THEN <<>>
    ELSE FinalTextsUpTo(steps, n - 1)
         \o (IF steps[n].accept /\ steps[n].text # <<>> THEN <<steps[n].text>> ELSE <<>>)

\* the first n texts with one space between neighbours
RECURSIVE SpaceJoinedUpTo(_, _)
SpaceJoinedUpTo(texts, n) ==
    IF n = 0 THEN <<>>
    ELSE IF n = 1 THEN texts[1]
    ELSE SpaceJoinedUpTo(texts, n - 1) \o <<" ">> \o texts[n]

\* what the last recognize_from_file call is said to return, from the answers
\* the recognizer gave during it
ExpectedTranscript ==
    LET a == outcome.arg
        texts == FinalTextsUpTo(a.steps, Len(a.steps))
                     \o (IF a.final # <<>> THEN <<a.final>> ELSE <<>>)
    IN  SpaceJoinedUpTo(texts, Len(texts))

\* C19: recognize_from_file on a mono, 16-bit file at the configured rate
\* returns, without raising, the texts of the final results with text that
\* the chunks produced, in chunk order, then the text of the trailing final
\* result if it has any, with single spaces between them; empty texts and
\* partial results add nothing
C19_FileTranscript ==
    (/\ outcome.op = "recognize_from_file"
     /\ outcome.arg.nchannels = 1
     /\ outcome.arg.sampwidth = 2
     /\ outcome.arg.framerate = sample_rate)
        => /\ outcome.ret = "str"
           /\ outcome.raised = "none"
           /\ outcome.value = ExpectedTranscript

\* a two-chunk file: the first chunk gave a final result with text, the
\* second a partial one with text, and the trailing final result has text;
\* the value is the first and the last text with a space between
C19_Witness ==
    /\ outcome.op = "recognize_from_file"
    /\ Len(outcome.arg.steps) = 2
    /\ outcome.arg.steps[1] = [accept |-> TRUE, text |-> <<"a">>]
    /\ outcome.arg.steps[2] = [accept |-> FALSE, text |-> <<"b">>]
    /\ outcome.arg.final = <<"b">>
    /\ outcome.value = <<"a", " ", "b">>

\* C20: when self.audio.open fails in start_listening, the exception reaches
\* the caller with the pipeline idle: is_listening is False and no stream
\* and no processing thread has been added; and a start_listening that finds
\* no stream held tries to open the device, it never returns with the
\* "already listening" warning
C20_OpenBeforeListening ==
    [][(\E opened \in BOOLEAN : StartListening(opened)) =>
           /\ outcome'.raised = "OSError" =>
                  (~is_listening' /\ streams' = streams /\ workers' = workers)
           /\ (recognizer /\ stream = None) => outcome'.log # "warning"]_vars

(***************************************************************************)
(* stop_listening and the handlers, statement by statement                 *)
(***************************************************************************)
\* thread t calls stop_listening; the controlling thread makes one call at a
\* time
StopEnter(t) ==
    /\ stoppers[t] = "none"
    /\ stoppers' = [stoppers EXCEPT ![t] = "guard"]
    /\ UNCHANGED <<pipeVars, routerVars, outcome, loggerVars, streamCalls, dispatching>>

\* `if not self.is_listening: return`
StopGuard(t) ==
    /\ stoppers[t] = "guard"
    /\ stoppers' = [stoppers EXCEPT ![t] = IF is_listening THEN "clear" ELSE "returned"]
    /\ UNCHANGED <<pipeVars, routerVars, outcome, loggerVars, streamCalls, dispatching>>

\* `self.is_listening = False`
StopClear(t) ==
    /\ stoppers[t] = "clear"
    /\ is_listening' = FALSE
    /\ stoppers' = [stoppers EXCEPT ![t] = "test"]
    /\ UNCHANGED <<recognizer, sample_rate, stream, streams, terminated, audio_queue,
                   pushed, popped, workers, processed, calls>>
    /\ UNCHANGED <<routerVars, outcome, loggerVars, streamCalls, dispatching>>

\* `if self.stream:`
StopTest(t) ==
    /\ stoppers[t] = "test"
    /\ stoppers' = [stoppers EXCEPT ![t] = IF stream # None THEN "stop_stream" ELSE "returned"]
    /\ UNCHANGED <<pipeVars, routerVars, outcome, loggerVars, streamCalls, dispatching>>

\* `self.stream.stop_stream()`: self.stream is read again; on None the
\* attribute lookup raises AttributeError; on a stream already closed
\* PortAudio either raises or does nothing (failed is which)
StopStopStream(t, failed) ==
    /\ stoppers[t] = "stop_stream"
    /\ IF stream = None
       THEN /\ stoppers' = [stoppers EXCEPT ![t] = "raised"]
            /\ UNCHANGED streamCalls
       ELSE /\ streamCalls[stream].stop_stream < MaxStreamCalls
            /\ streamCalls' = [streamCalls EXCEPT ![stream].stop_stream = @ + 1]
            /\ stoppers' = [stoppers EXCEPT ![t] =
                   IF streams[stream] = "closed" /\ failed THEN "raised" ELSE "close"]
    /\ UNCHANGED <<pipeVars, routerVars, outcome, loggerVars, dispatching>>

\* `self.stream.close()`, with self.stream read again
StopClose(t, failed) ==
    /\ stoppers[t] = "close"
    /\ IF stream = None
       THEN /\ stoppers' = [stoppers EXCEPT ![t] = "raised"]
            /\ UNCHANGED <<streamCalls, streams>>
       ELSE /\ streamCalls[stream].close < MaxStreamCalls
            /\ streamCalls' = [streamCalls EXCEPT ![stream].close = @ + 1]
            /\ streams' = [streams EXCEPT ![stream] = "closed"]
            /\ stoppers' = [stoppers EXCEPT ![t] =
                   IF streams[stream] = "closed" /\ failed THEN "raised" ELSE "forget"]
    /\ UNCHANGED <<recognizer, sample_rate, is_listening, stream, terminated, audio_queue,
                   pushed, popped, workers, processed, calls>>
    /\ UNCHANGED <<routerVars, outcome, loggerVars, dispatching>>

\* `self.stream = None`, after which the call returns
StopForget(t) ==
    /\ stoppers[t] = "forget"
    /\ stream' = None
    /\ stoppers' = [stoppers EXCEPT ![t] = "returned"]
    /\ UNCHANGED <<recognizer, sample_rate, is_listening, streams, terminated, audio_queue,
                   pushed, popped, workers, processed, calls>>
    /\ UNCHANGED <<routerVars, outcome, loggerVars, streamCalls, dispatching>>

\* the controlling thread is back from its stop_listening call, which
\* returned or raised
StopReturn ==
    /\ stoppers[0] \in {"returned", "raised"}
    /\ stoppers' = [stoppers EXCEPT ![0] = "none"]
    /\ calls' = Called("stop_listening")
    /\ outcome' = Outcome("stop_listening", None, "None", <<>>,
                          IF stoppers[0] = "raised" THEN "Error" ELSE "none", "info", 0)
    /\ UNCHANGED <<recognizer, sample_rate, is_listening, stream, streams, terminated,
                   audio_queue, pushed, popped, workers, processed>>
    /\ UNCHANGED <<routerVars, loggerVars, streamCalls, dispatching>>

\* start_listening by the controlling thread, between its other calls
StepStartListening(opened) ==
    /\ stoppers[0] = "none"
    /\ StartListening(opened)

\* the loop body up to the point where a handler is entered: AcceptWaveform,
\* process_result and its lookup; goodbye_command goes on to call
\* stop_listening from this thread
WorkerDispatch(w, r) ==
    /\ workers[w].pc = "process"
    /\ ~r.raises
    /\ IF Dispatches(r)
       THEN /\ text' = r.text
            /\ invoked' = ProcessResult(commands, r.text)
       ELSE UNCHANGED <<text, invoked>>
    /\ processed' = [worker |-> w, kind |-> r.kind, text |-> r.text,
                     fault |-> r.kind = "error"]
    /\ IF Dispatches(r) /\ invoked' # <<>>
       THEN /\ workers' = [workers EXCEPT ![w].pc = "handler"]
            /\ stoppers' = [stoppers EXCEPT ![w] =
                   IF \E i \in 1..Len(invoked') : invoked'[i] = "goodbye"
                   THEN "guard" ELSE "none"]
       ELSE /\ workers' = [workers EXCEPT ![w] =
                   [pc |-> IF processed'.fault THEN PcAfterException ELSE "check",
                    data |-> None]]
            /\ UNCHANGED stoppers
    /\ UNCHANGED <<recognizer, sample_rate, is_listening, stream, streams, terminated,
                   audio_queue, pushed, popped, calls>>
    /\ UNCHANGED <<commands, lastReg, outcome, loggerVars, streamCalls, dispatching>>

\* the handler returns to the loop, or the exception its stop_listening call
\* raised is caught by the loop's `except Exception`
HandlerReturn(w) ==
    /\ workers[w].pc = "handler"
    /\ stoppers[w] \in {"none", "returned", "raised"}
    /\ workers' = [workers EXCEPT ![w] = [pc |-> "check", data |-> None]]
    /\ stoppers' = [stoppers EXCEPT ![w] = "none"]
    /\ UNCHANGED <<recognizer, sample_rate, is_listening, stream, streams, terminated,
                   audio_queue, pushed, popped, processed, calls>>
    /\ UNCHANGED <<routerVars, outcome, loggerVars, streamCalls, dispatching>>

\* the threads inside stop_listening
Stopping == {t \in Threads : stoppers[t] \notin {"none", "returned", "raised"}}

NextSteps ==
    \/ \E opened \in BOOLEAN : StepStartListening(opened)
    \/ StopEnter(0)
    \/ \E t \in Threads : StopGuard(t)
    \/ \E t \in Threads : StopClear(t)
    \/ \E t \in Threads : StopTest(t)
    \/ \E t \in Threads, failed \in BOOLEAN : StopStopStream(t, failed)
    \/ \E t \in Threads, failed \in BOOLEAN : StopClose(t, failed)
    \/ \E t \in Threads : StopForget(t)
    \/ StopReturn
    \/ AudioCallback
    \/ \E w \in 1..Len(workers) : WorkerCheck(w)
    \/ \E w \in 1..Len(workers) : WorkerGet(w)
    \/ \E w \in 1..Len(workers) : WorkerTimeout(w)
    \/ \E w \in 1..Len(workers), r \in DecoderSteps : WorkerDispatch(w, r)
    \/ \E w \in 1..Len(workers) : HandlerReturn(w)

\* the example program with a recognizer, every thread advancing one
\* statement of stop_listening at a time and handlers taking time
InitSteps == Init /\ recognizer

SpecSteps == InitSteps /\ [][NextSteps]_vars

(***************************************************************************)
(* process_result statement by statement, with register_command            *)
(* called from another thread                                              *)
(***************************************************************************)
\* the phrases and texts used: those without upper case or blanks
PlainStrings == {x \in Strings : \A i \in 1..Len(x) : x[i] \in {"a", "b"}}

RaceFrame == UNCHANGED <<pipeVars, outcome, loggerVars, stoppers, streamCalls>>

\* process_result is over
Finished(raised) == [dispatching EXCEPT !.pc = "done", !.raised = raised]

\* process_result({'text': raw}) is entered: the text is normalized, and an
\* empty text returns at once; before is the registry at this point
RaceBegin(raw) ==
    /\ dispatching.pc \in {"none", "done"}
    /\ text' = raw
    /\ invoked' = <<>>
    /\ dispatching' =
          [pc |-> IF NormalizeText(raw) = <<>> THEN "done" ELSE "exact_test",
           t |-> NormalizeText(raw), i |-> 0, size |-> 0, before |-> commands,
           reg |-> <<>>, raised |-> FALSE]
    /\ UNCHANGED <<commands, lastReg>>
    /\ RaceFrame

\* `if text in self.commands:`
RaceExactTest ==
    /\ dispatching.pc = "exact_test"
    /\ dispatching' = [dispatching EXCEPT !.pc =
          IF KeyIndex(commands, dispatching.t) # 0 THEN "exact_call" ELSE "iter_start"]
    /\ UNCHANGED routerVars
    /\ RaceFrame

\* `self.commands[text]()`, then return
RaceExactCall ==
    /\ dispatching.pc = "exact_call"
    /\ invoked' = <<commands[KeyIndex(commands, dispatching.t)].handler>>
    /\ dispatching' = Finished(FALSE)
    /\ UNCHANGED <<commands, text, lastReg>>
    /\ RaceFrame

\* `for command, handler in self.commands.items():` creates the iterator,
\* which remembers the size of the dict
RaceIterStart ==
    /\ dispatching.pc = "iter_start"
    /\ dispatching' = [dispatching EXCEPT !.pc = "iter_next", !.i = 1,
                                          !.size = Len(commands)]
    /\ UNCHANGED routerVars
    /\ RaceFrame

\* the iterator's test before it yields: "dictionary changed size during
\* iteration"
SizeChanged(size) == Len(commands) # size

\* one turn of the loop: the iterator raises RuntimeError if the dict has
\* changed size, ends the loop after the last entry, or yields entry i, whose
\* handler is called if its key occurs in the text
RaceIterNext ==
    /\ dispatching.pc = "iter_next"
    /\ IF SizeChanged(dispatching.size)
       THEN /\ dispatching' = Finished(TRUE)
            /\ UNCHANGED invoked
       ELSE IF dispatching.i > Len(commands)
       THEN /\ dispatching' = Finished(FALSE)
            /\ UNCHANGED invoked
       ELSE IF IsSubstring(commands[dispatching.i].phrase, dispatching.t)
       THEN /\ invoked' = <<commands[dispatching.i].handler>>
            /\ dispatching' = Finished(FALSE)
       ELSE /\ dispatching' = [dispatching EXCEPT !.i = @ + 1]
            /\ UNCHANGED invoked
    /\ UNCHANGED <<commands, text, lastReg>>
    /\ RaceFrame

\* register_command(command, handler) by the controlling thread; while a
\* process_result call is under way, one such call is followed
RaceRegister(command, handler) ==
    /\ Len(Register(commands, command, handler)) <= MaxCmds
    /\ dispatching.pc \notin {"none", "done"} => dispatching.reg = <<>>
    /\ commands' = Register(commands, command, handler)
    /\ lastReg' = [command |-> command, handler |-> handler]
    /\ dispatching' =
          IF dispatching.pc \in {"none", "done"} THEN dispatching
          ELSE [dispatching EXCEPT !.reg =
                   <<[command |-> command, handler |-> handler,
                      after |-> Register(commands, command, handler)]>>]
    /\ UNCHANGED <<text, invoked>>
    /\ RaceFrame

NextRace ==
    \/ \E raw \in PlainStrings : RaceBegin(raw)
    \/ RaceExactTest
    \/ RaceExactCall
    \/ RaceIterStart
    \/ RaceIterNext
    \/ \E c \in PlainStrings, h \in Handlers : RaceRegister(c, h)

InitRace == InitRouter

\* the processing thread dispatching texts while the controlling thread
\* registers commands
SpecRace == InitRace /\ [][NextRace]_vars

(***************************************************************************)
(* UserActionLogger (src/SpokyAI/core/user_action_logger.py)               *)
(***************************************************************************)
UserIds == {"default_user", "user_123"}

\* the action_type each logging method passes to log_action
ActionTypes ==
    {"session_start", "custom", "mouse_click", "keyboard_input", "voice_command",
     "window_switch", "file_operation", "automation_task", "error", "session_end"}

AllLoggers == 1..Len(loggers)

\* a log_action that leaves the count as it is
SameActionCount(n) == n

\* self.action_count += 1
NextActionCount(n) == n + 1

\* UserActionLogger.log_action(action_type, ...) on instance l: count, then
\* write the entry with the new count as its action_id
LogActionOn(l, action_type) ==
    /\ Len(entries) < MaxEntries
    /\ loggers' = [loggers EXCEPT ![l].action_count = NextActionCount(@)]
    /\ entries' = Append(entries, [logger |-> l, action_id |-> loggers'[l].action_count,
                                   action_type |-> action_type])

\* UserActionLogger(user_id): action_count = 0, then log_action("session_start")
Construct(user_id) ==
    /\ Len(loggers) < MaxLoggers
    /\ Len(entries) < MaxEntries
    /\ loggers' = Append(loggers, [user_id |-> user_id, action_count |-> NextActionCount(0)])
    /\ entries' = Append(entries, [logger |-> Len(loggers) + 1,
                                   action_id |-> loggers'[Len(loggers) + 1].action_count,
                                   action_type |-> "session_start"])

\* what the calls below leave alone
LoggerFrame == UNCHANGED <<pipeVars, routerVars, stepVars>>

\* user_logger = UserActionLogger(user_id)
NewLogger(user_id) ==
    /\ Construct(user_id)
    /\ outcome' = Outcome("UserActionLogger", user_id, "logger", Len(loggers) + 1,
                          "none", "info", 0)
    /\ UNCHANGED default_logger
    /\ LoggerFrame

\* a call of logging method op on instance l, which passes action_type on
LogCall(l, op, action_type) ==
    /\ LogActionOn(l, action_type)
    /\ outcome' = Outcome(op, l, "None", 0, "none", "info", 0)
    /\ UNCHANGED default_logger
    /\ LoggerFrame

LogAction(l) == LogCall(l, "log_action", "custom")

LogMouseClick(l) == LogCall(l, "log_mouse_click", "mouse_click")

LogKeyboardInput(l) == LogCall(l, "log_keyboard_input", "keyboard_input")

LogVoiceCommand(l) == LogCall(l, "log_voice_command", "voice_command")

LogWindowSwitch(l) == LogCall(l, "log_window_switch", "window_switch")

LogFileOperation(l) == LogCall(l, "log_file_operation", "file_operation")

LogAutomationTask(l) == LogCall(l, "log_automation_task", "automation_task")

LogError(l) == LogCall(l, "log_error", "error")

\* end_session: get_session_stats, then log_action("session_end", stats)
EndSession(l) == LogCall(l, "end_session", "session_end")

\* get_session_stats: the dict returned carries total_actions
GetSessionStats(l) ==
    /\ outcome' = Outcome("get_session_stats", l, "dict", loggers[l].action_count,
                          "none", "info", 0)
    /\ UNCHANGED loggerVars
    /\ LoggerFrame

\* get_logger that constructs an instance on every call
DefaultAlwaysMissing == TRUE

\* `if _default_logger is None`
DefaultMissing == default_logger = None

\* the body of get_logger(user_id): the instance returned
GetLoggerBody(user_id) ==
    IF DefaultMissing
    THEN /\ Construct(user_id)
         /\ default_logger' = Len(loggers) + 1
    ELSE UNCHANGED loggerVars

\* get_logger(user_id)
GetLogger(user_id) ==
    /\ GetLoggerBody(user_id)
    /\ outcome' = Outcome("get_logger", user_id, "logger", default_logger', "none", "info", 0)
    /\ LoggerFrame

\* the module-level log_action(action_type): get_logger(), then log_action on
\* the instance; the two entries of a first call are written one after the
\* other
ModuleLogAction ==
    /\ IF DefaultMissing
       THEN /\ Len(loggers) < MaxLoggers
            /\ Len(entries) + 1 < MaxEntries
            /\ default_logger' = Len(loggers) + 1
            /\ loggers' = Append(loggers, [user_id |-> "default_user",
                                           action_count |-> NextActionCount(NextActionCount(0))])
            /\ entries' = entries \o
                   << [logger |-> Len(loggers) + 1, action_id |-> NextActionCount(0),
                       action_type |-> "session_start"],
                      [logger |-> Len(loggers) + 1,
                       action_id |-> NextActionCount(NextActionCount(0)),
                       action_type |-> "custom"] >>
       ELSE /\ LogActionOn(default_logger, "custom")
            /\ UNCHANGED default_logger
    /\ outcome' = Outcome("module.log_action", None, "None", 0, "none", "info", 0)
    /\ LoggerFrame

\* state after the module is imported, with the pipeline idle
InitLogger ==
    /\ InitRouter

NextLogger ==
    \/ \E u \in UserIds : NewLogger(u)
    \/ \E u \in UserIds : GetLogger(u)
    \/ ModuleLogAction
    \/ \E l \in AllLoggers : LogAction(l)
    \/ \E l \in AllLoggers : LogMouseClick(l)
    \/ \E l \in AllLoggers : LogKeyboardInput(l)
    \/ \E l \in AllLoggers : LogVoiceCommand(l)
    \/ \E l \in AllLoggers : LogWindowSwitch(l)
    \/ \E l \in AllLoggers : LogFileOperation(l)
    \/ \E l \in AllLoggers : LogAutomationTask(l)
    \/ \E l \in AllLoggers : LogError(l)
    \/ \E l \in AllLoggers : EndSession(l)
    \/ \E l \in AllLoggers : GetSessionStats(l)

\* calls on the loggers of one process, one after another
SpecLogger == InitLogger /\ [][NextLogger]_vars

(***************************************************************************)
(* Claims about UserActionLogger, checked under SpecLogger                 *)
(***************************************************************************)
\* a call of one of the logging methods on instance l
LoggingCall(l) ==
    \/ LogAction(l)
    \/ LogMouseClick(l)
    \/ LogKeyboardInput(l)
    \/ LogVoiceCommand(l)
    \/ LogWindowSwitch(l)
    \/ LogFileOperation(l)
    \/ LogAutomationTask(l)
    \/ LogError(l)
    \/ EndSession(l)

\* C21: each logging method, end_session included, raises the action_count
\* of its instance by exactly 1 and leaves the other instances alone;
\* construction leaves a new instance with the one session_start counted, so
\* the count is never below 1; and get_session_stats returns total_actions
\* equal to action_count without changing it
C21_ActionCount ==
    /\ [](\A l \in AllLoggers : loggers[l].action_count >= 1)
    /\ [][\A l \in AllLoggers :
              /\ LoggingCall(l) =>
                     /\ loggers'[l].action_count = loggers[l].action_count + 1
                     /\ \A k \in AllLoggers \ {l} : loggers'[k] = loggers[k]
                     /\ Len(loggers') = Len(loggers)
              /\ GetSessionStats(l) =>
                     /\ outcome'.value = loggers[l].action_count
                     /\ loggers' = loggers]_vars
    /\ [][\A u \in UserIds :
              NewLogger(u) =>
                  /\ loggers'[Len(loggers) + 1].action_count = 1
                  /\ entries'[Len(entries')].action_type = "session_start"
                  /\ \A k \in AllLoggers : loggers'[k] = loggers[k]]_vars

\* an instance was constructed, logged one action and ended its session, and
\* get_session_stats then reported the three actions
C21_Witness ==
    /\ outcome.op = "get_session_stats"
    /\ outcome.value = 3
    /\ Len(entries) = 3
    /\ entries[1].action_type = "session_start"
    /\ entries[2].action_type = "voice_command"
    /\ entries[3].action_type = "session_end"
    /\ loggers[outcome.arg].action_count = 3

\* the session_start entries written so far
SessionStarts == {i \in 1..Len(entries) : entries[i].action_type = "session_start"}

\* C22: once get_logger or the module-level log_action has created the
\* default instance, every later get_logger call returns that instance,
\* whatever user_id it is given, the default is never replaced, and neither
\* function constructs again: the default instance has exactly one
\* session_start entry and no further one is written by these calls
C22_Singleton ==
    /\ [](default_logger # None =>
             Cardinality({i \in SessionStarts : entries[i].logger = default_logger}) = 1)
    /\ [][default_logger # None => default_logger' = default_logger]_vars
    /\ [][\A u \in UserIds :
              (GetLogger(u) /\ default_logger # None) =>
                  /\ outcome'.value = default_logger
                  /\ UNCHANGED <<loggers, entries>>]_vars
    /\ [][(((\E u \in UserIds : GetLogger(u)) \/ ModuleLogAction) /\ default_logger # None)
             => (SessionStarts' = SessionStarts /\ Len(loggers') = Len(loggers))]_vars

\* the module-level log_action was called twice and then get_logger with
\* another user_id: one instance, one session_start, and get_logger returned
\* the instance of the first call
C22_Witness ==
    /\ outcome.op = "get_logger"
    /\ outcome.arg = "user_123"
    /\ default_logger # None
    /\ outcome.value = default_logger
    /\ Len(loggers) = 1
    /\ loggers[default_logger].user_id = "default_user"
    /\ Len(entries) = 3
    /\ SessionStarts = {1}
    /\ entries[3].action_type = "custom"

(***************************************************************************)
(* Claims about sessions and threads, checked under Spec and SpecSteps     *)
(***************************************************************************)
\* C23: at most one processing thread is alive at any time, and while a
\* session is listening on its stream no thread started with an earlier
\* stream is still alive
C23_OneWorkerAlive ==
    /\ Cardinality(AliveWorkers) <= 1
    /\ (is_listening /\ stream # None) => AliveWorkers \subseteq {stream}

\* C24: however the stop_listening calls of the controlling thread and of a
\* handler interleave, no stream receives stop_stream() or close() more than
\* once, no call raises, and once no thread is inside stop_listening and the
\* flag is cleared, no stream is referred to or left open
C24_ConcurrentStop ==
    /\ \A i \in 1..MaxStarts :
           streamCalls[i].stop_stream <= 1 /\ streamCalls[i].close <= 1
    /\ \A t \in Threads : stoppers[t] # "raised"
    /\ (Stopping = {} /\ ~is_listening) => (stream = None /\ OpenStreams = {})

\* registry after is registry before with key k set to handler h: k maps to
\* h, the other keys keep their handlers, and the order of insertion is kept
IsRegistryPlus(before, after, k, h) ==
    /\ Len(after) = Len(before) + (IF KeyIndex(before, k) = 0 THEN 1 ELSE 0)
    /\ KeyIndex(after, k) # 0
    /\ after[KeyIndex(after, k)].handler = h
    /\ \A j \in 1..Len(before) :
           /\ after[j].phrase = before[j].phrase
           /\ before[j].phrase # k => after[j].handler = before[j].handler

\* in a process_result call that has ended and during which register_command
\* was called once: the registry is changed by the registration only, and at
\* most one handler was called, the one the exact-then-first-substring rule
\* gives on the registry before the registration or on the registry after it
RaceKeepsState ==
    (dispatching.pc = "done" /\ dispatching.reg # <<>>) =>
        /\ IsRegistryPlus(dispatching.before, dispatching.reg[1].after,
                          Lower(dispatching.reg[1].command),
                          dispatching.reg[1].handler)
        /\ Len(invoked) <= 1
        /\ \/ invoked = ProcessResult(dispatching.before, text)
           \/ invoked = ProcessResult(dispatching.reg[1].after, text)

\* C25: a process_result call during which register_command was called once
\* leaves the registry equal to the one before plus the registration, calls
\* at most one handler, chosen by the exact-then-first-substring rule on the
\* registry before or after the registration, and does not raise
C25_RegisterRacesDispatch ==
    /\ RaceKeepsState
    /\ (dispatching.pc = "done" /\ dispatching.reg # <<>>) => ~dispatching.raised

\* the processing threads inside a handler
InHandler == {w \in 1..Len(workers) : workers[w].pc = "handler"}

\* C26: in a step taken while a handler is executing, no frame is taken from
\* the queue, no frame is fed to the decoder, no other handler starts, and
\* the queue keeps its frames in order with the pushed ones added at the end;
\* so the queue is not drained as long as the handler has not returned
C26_HandlerBlocksWorker ==
    [][InHandler # {} =>
          /\ popped' = popped
          /\ processed' = processed
          /\ {w \in 1..Len(workers') : workers'[w].pc = "handler"} \subseteq InHandler
          /\ Len(audio_queue') >= Len(audio_queue)
          /\ SubSeq(audio_queue', 1, Len(audio_queue)) = audio_queue]_vars

\* the last call of the controlling thread was stop_listening, it has
\* returned, and the pipeline is idle
StoppedFromOutside == outcome.op = "stop_listening" /\ ~is_listening

\* C27: in a step taken after a stop_listening call of the controlling thread
\* has returned and while the pipeline is idle, no processing thread ends a
\* run of its loop body in which a handler was called
C27_NoHandlerAfterStop ==
    [][StoppedFromOutside =>
          \A w \in AllWorkers :
              (workers[w].pc = "process" /\ workers'[w].pc # "process")
                  => ~(Dispatches(processed') /\ invoked' # <<>>)]_vars

\* C28: a start_listening call that moves the pipeline from idle to listening
\* on a newly opened stream leaves no frame in the queue, every frame there
\* having been pushed before the call
C28_NoStaleFrames ==
    [][(~is_listening /\ is_listening' /\ stream' # None) => audio_queue' = <<>>]_vars

====
